---- MODULE Spec2Model ----
(***************************************************************************)
(* Model of the Continuous projection schedule                            *)
(* (src/projection/schedule/continuous.go): the configuration built by    *)
(* Continuously and its options, the cap heuristic computeDebounceCap,    *)
(* the subscription lifecycle of Subscribe, and the debounce engine of    *)
(* handleEvents (clearDebounce, createJob, addEvent) with its timers.     *)
(*                                                                         *)
(* Durations are in milliseconds.  Events are numbered 1..MaxEvents in    *)
(* the order in which the bus feeds them.                                 *)
(*                                                                         *)
(* A goroutine takes one step per action; a step ends where the goroutine *)
(* can block (mux, the select on jobs) or where another goroutine can     *)
(* observe or overwrite what it does without mux (the append of line 262, *)
(* taken as the load and the store of the slice header).  Timer callbacks *)
(* are anonymous goroutines and are counted per position.  handleTriggers *)
(* and applyJobs belong to the base schedule: they are modelled as far as *)
(* Subscribe depends on them (the WaitGroup, the receiver of jobs, done); *)
(* the Jobs of manual triggers are not modelled.                          *)
(***************************************************************************)
EXTENDS Integers, Sequences, FiniteSets, TLC

\* Number of events the bus feeds during one subscription.
MaxEvents == 3

\* Number of errors the bus sends on the errs feed.
MaxErrs == 1

\* Number of events the bus feeds in the timed runs.
MaxTimedEvents == 2

\* continuous.go:20  const defaultDebounceBarrier = 2500 * time.Millisecond
defaultDebounceBarrier == 2500

\* continuous.go:28  var DefaultDebounceCap = 5 * time.Second
DefaultDebounceCap == 5000

VARIABLES
    schedule,     \* Continuous{debounce, debounceCap, debounceCapManuallySet}
    capResult,    \* last value returned by computeDebounceCap (-1: not called)
    occurred,     \* occurred[e]: the occurrence time of the e-th event of the feed
    pcSub,        \* position of the Subscribe call
    cleanup,      \* goroutine of lines 162-165: "none" | "waiting" | "done"
    triggers,     \* TRUE while the trigger registration exists
    cancelled,    \* ctx.Done() is closed
    feedOpen,     \* the bus still feeds the events channel
    nrecv,        \* number of events taken from the feed so far
    nerr,         \* number of errors taken from the errs feed so far
    errOut,       \* number of errors a reader of `out` received from fail
    errDropped,   \* number of errors fail dropped on <-ctx.Done()
    evt,          \* position of the handleEvents goroutine
    evtBuf,       \* slice header loaded by the append of line 262
    buf,          \* var buf []event.Event
    jobCreated,   \* var jobCreated bool
    debounce,     \* var debounce *time.Timer
    debounceCap,  \* var debounceCap *time.Timer
    mux,          \* holder of mux while blocked in the select of line 250
    events,       \* the copy of buf made by the createJob holding mux
    nLock,        \* timer callbacks waiting at line 233
    nClear,       \* timer callbacks waiting in their deferred clearDebounce
    wg,           \* sync.WaitGroup counter
    trig,         \* handleTriggers goroutine: "none" | "run" | "done"
    apply,        \* applyJobs goroutine: "none" | "recv" | "apply" | "done"
    jobsClosed,   \* close(jobs) has run
    done,         \* the done channel is closed
    delivered,    \* Jobs received by applyJobs, each the sequence of its events
    panicked,     \* a send on the closed jobs channel crashed the process
    age,          \* per buffered event: time since it was appended
    sinceLast,    \* time since the last event was taken from the feed
    burst,        \* every event so far came < debounce after the previous one
                  \* and before any cap timer fired
    late          \* the clock advanced while a goroutine could run or a
                  \* timer was due

vars == << schedule, capResult, occurred, pcSub, cleanup, triggers, cancelled, feedOpen,
           nrecv, nerr, errOut, errDropped, evt, evtBuf, buf, jobCreated, debounce, debounceCap, mux,
           events, nLock, nClear, wg, trig, apply, jobsClosed, done,
           delivered, panicked, age, sinceLast, burst, late >>

errVars    == << nerr, errOut, errDropped >>
cfgVars    == << schedule, capResult, occurred >>
subVars    == << pcSub, cleanup, triggers >>
timeVars   == << age, sinceLast, burst, late >>
engineVars == << buf, jobCreated, debounce, debounceCap, mux, events >>

Events == 1..MaxEvents

Min(a, b) == IF a < b THEN a ELSE b

Range(s) == { s[i] : i \in 1..Len(s) }

(***************************************************************************)
(* Configuration: Continuously and its options                            *)
(***************************************************************************)

\* func Debounce(d) ContinuousOption: c.debounce = d
Debounce(d) == [name |-> "Debounce", d |-> d]

\* func DebounceCap(cap) ContinuousOption: c.debounceCap = cap; manuallySet = true
DebounceCap(d) == [name |-> "DebounceCap", d |-> d]

ApplyOption(c, opt) ==
    IF opt.name = "Debounce"
    THEN [c EXCEPT !.debounce = opt.d]
    ELSE [c EXCEPT !.debounceCap = opt.d, !.debounceCapManuallySet = TRUE]

RECURSIVE ApplyOptions(_, _)
ApplyOptions(c, opts) ==
    IF opts = << >> THEN c
    ELSE ApplyOptions(ApplyOption(c, Head(opts)), Tail(opts))

\* Continuously(bus, store, eventNames, opts...): debounceCap starts at the
\* value the package variable DefaultDebounceCap holds at that moment (def).
Continuously(def, opts) ==
    ApplyOptions([debounce |-> 0, debounceCap |-> def,
                  debounceCapManuallySet |-> FALSE], opts)

\* func (s *Continuous) computeDebounceCap() time.Duration
computeDebounceCapIgnoreOverride(s) ==
    IF s.debounceCap <= 0 THEN 0
    ELSE IF s.debounce <= defaultDebounceBarrier THEN s.debounceCap
    ELSE s.debounce * 2

computeDebounceCap(s) ==
    IF s.debounceCap <= 0 THEN 0
    ELSE IF s.debounceCapManuallySet THEN s.debounceCap
    ELSE IF s.debounce <= defaultDebounceBarrier THEN s.debounceCap
    ELSE s.debounce * 2

(***************************************************************************)
(* Timers                                                                 *)
(***************************************************************************)

NilTimer == [st |-> "nil", rem |-> 0]

\* time.AfterFunc(d, createJob)
AfterFunc(d) == [st |-> "armed", rem |-> d]

Armed(t) == t.st = "armed"

\* The timer elapsed: its callback now runs in its own goroutine.
Fired(t) == [st |-> "fired", rem |-> 0]

(***************************************************************************)
(* Initial states                                                         *)
(***************************************************************************)

\* The state before Subscribe, for a schedule s and a feed whose e-th event
\* occurred at time t[e].
InitFrom(s, t) ==
    /\ schedule = s
    /\ capResult = -1
    /\ occurred = t
    /\ pcSub = "start"
    /\ cleanup = "none"
    /\ triggers = FALSE
    /\ cancelled = FALSE
    /\ feedOpen = FALSE
    /\ nrecv = 0
    /\ nerr = 0
    /\ errOut = 0
    /\ errDropped = 0
    /\ evt = "none"
    /\ evtBuf = << >>
    /\ buf = << >>
    /\ jobCreated = FALSE
    /\ debounce = NilTimer
    /\ debounceCap = NilTimer
    /\ mux = "free"
    /\ events = << >>
    /\ nLock = 0
    /\ nClear = 0
    /\ wg = 0
    /\ trig = "none"
    /\ apply = "none"
    /\ jobsClosed = FALSE
    /\ done = FALSE
    /\ delivered = << >>
    /\ panicked = FALSE
    /\ age = [e \in Events |-> 0]
    /\ sinceLast = 0
    /\ burst = "yes"
    /\ late = FALSE

\* A feed that delivers the events in the order in which they occurred.
InitWith(s) == InitFrom(s, [e \in Events |-> e])

\* Schedules of the engine runs: no option (no debouncing); Debounce(2ms)
\* with the default cap; Debounce(2ms) with the cap switched off.
EngineSchedules ==
    { Continuously(DefaultDebounceCap, << >>),
      Continuously(DefaultDebounceCap, << Debounce(2) >>),
      Continuously(DefaultDebounceCap, << Debounce(2), DebounceCap(0) >>) }

Init == \E s \in EngineSchedules : InitWith(s)

(***************************************************************************)
(* Subscribe (lines 149-186)                                              *)
(***************************************************************************)

Alive == ~panicked

\* bus.Subscribe fails only after the allocations of lines 157-165 were made.
SubscribeBusErrorAfterSetup ==
    /\ Alive /\ pcSub = "start"
    /\ pcSub' = "err_subscribe"
    /\ triggers' = TRUE
    /\ cleanup' = "waiting"
    /\ UNCHANGED << cfgVars, cancelled, feedOpen, nrecv, errVars,
                    evt, evtBuf, engineVars, nLock, nClear, wg, trig, apply,
                    jobsClosed, done, delivered, panicked, timeVars >>

\* lines 152-155: bus.Subscribe fails, Subscribe returns (nil, err).
SubscribeBusError ==
    /\ Alive /\ pcSub = "start"
    /\ pcSub' = "err_subscribe"
    /\ UNCHANGED << cfgVars, cleanup, triggers, cancelled, feedOpen, nrecv, errVars,
                    evt, evtBuf, engineVars, nLock, nClear, wg, trig, apply,
                    jobsClosed, done, delivered, panicked, timeVars >>

\* lines 152-165: bus.Subscribe succeeds; out, jobs, triggers and done are
\* allocated and the goroutine that waits for done is started.
SubscribeSetup ==
    /\ Alive /\ pcSub = "start"
    /\ feedOpen' = TRUE
    /\ triggers' = TRUE
    /\ cleanup' = "waiting"
    /\ pcSub' = "startup"
    /\ UNCHANGED << cfgVars, cancelled, nrecv, errVars, evt, evtBuf, engineVars, nLock,
                    nClear, wg, trig, apply, jobsClosed, done, delivered,
                    panicked, timeVars >>

\* lines 167-170: a startup Job is configured and applying it fails.
SubscribeStartupError ==
    /\ Alive /\ pcSub = "startup"
    /\ pcSub' = "err_startup"
    /\ UNCHANGED << cfgVars, cleanup, triggers, cancelled, feedOpen, nrecv, errVars,
                    evt, evtBuf, engineVars, nLock, nClear, wg, trig, apply,
                    jobsClosed, done, delivered, panicked, timeVars >>

\* lines 167-185: no startup Job, or it succeeded; wg.Add(2), the three
\* goroutines and the one that closes jobs are started, out is returned.
SubscribeStart ==
    /\ Alive /\ pcSub = "startup"
    /\ wg' = 2
    /\ evt' = "idle"
    /\ trig' = "run"
    /\ apply' = "recv"
    /\ pcSub' = "running"
    /\ UNCHANGED << cfgVars, cleanup, triggers, cancelled, feedOpen, nrecv, errVars,
                    evtBuf, engineVars, nLock, nClear, jobsClosed, done,
                    delivered, panicked, timeVars >>

\* The caller cancels ctx while the subscription runs.
Cancel ==
    /\ Alive /\ pcSub = "running" /\ ~cancelled
    /\ cancelled' = TRUE
    /\ UNCHANGED << cfgVars, subVars, feedOpen, nrecv, errVars, evt, evtBuf,
                    engineVars, nLock, nClear, wg, trig, apply, jobsClosed,
                    done, delivered, panicked, timeVars >>

\* The bus closes the events and errs channels once ctx is cancelled.
BusEndFeeds ==
    /\ Alive /\ cancelled /\ feedOpen
    /\ feedOpen' = FALSE
    /\ UNCHANGED << cfgVars, subVars, cancelled, nrecv, errVars, evt, evtBuf,
                    engineVars, nLock, nClear, wg, trig, apply, jobsClosed,
                    done, delivered, panicked, timeVars >>

\* handleTriggers returns on cancellation (defer wg.Done()).
TriggersReturn ==
    /\ Alive /\ trig = "run" /\ cancelled
    /\ trig' = "done"
    /\ wg' = wg - 1
    /\ UNCHANGED << cfgVars, subVars, cancelled, feedOpen, nrecv, errVars, evt, evtBuf,
                    engineVars, nLock, nClear, apply, jobsClosed, done,
                    delivered, panicked, timeVars >>

\* close(jobs) without the wg.Wait() before it.
CloseJobsNoWait ==
    /\ Alive /\ pcSub = "running" /\ ~jobsClosed
    /\ jobsClosed' = TRUE
    /\ UNCHANGED << cfgVars, subVars, cancelled, feedOpen, nrecv, errVars, evt,
                    evtBuf, engineVars, nLock, nClear, wg, trig, apply, done,
                    delivered, panicked, timeVars >>

\* lines 180-183: wg.Wait(); close(jobs).
CloseJobs ==
    /\ Alive /\ pcSub = "running" /\ wg = 0 /\ ~jobsClosed
    /\ jobsClosed' = TRUE
    /\ UNCHANGED << cfgVars, subVars, cancelled, feedOpen, nrecv, errVars, evt, evtBuf,
                    engineVars, nLock, nClear, wg, trig, apply, done,
                    delivered, panicked, timeVars >>

\* applyJobs: the apply function returns, the loop receives again.
ApplyReturn ==
    /\ Alive /\ apply = "apply"
    /\ apply' = "recv"
    /\ UNCHANGED << cfgVars, subVars, cancelled, feedOpen, nrecv, errVars, evt, evtBuf,
                    engineVars, nLock, nClear, wg, trig, jobsClosed, done,
                    delivered, panicked, timeVars >>

\* applyJobs: jobs is closed and drained, the loop ends and done is closed.
ApplyExit ==
    /\ Alive /\ apply = "recv" /\ jobsClosed
    /\ apply' = "done"
    /\ done' = TRUE
    /\ UNCHANGED << cfgVars, subVars, cancelled, feedOpen, nrecv, errVars, evt, evtBuf,
                    engineVars, nLock, nClear, wg, trig, jobsClosed,
                    delivered, panicked, timeVars >>

\* lines 162-165: <-done; schedule.removeTriggers(triggers).
RemoveTriggers ==
    /\ Alive /\ cleanup = "waiting" /\ done
    /\ cleanup' = "done"
    /\ triggers' = FALSE
    /\ UNCHANGED << cfgVars, pcSub, cancelled, feedOpen, nrecv, errVars, evt, evtBuf,
                    engineVars, nLock, nClear, wg, trig, apply, jobsClosed,
                    done, delivered, panicked, timeVars >>

(***************************************************************************)
(* handleEvents (lines 188-280): the pieces shared by its three closures  *)
(***************************************************************************)

lifeVars == << cfgVars, subVars, cancelled, feedOpen, wg, trig, jobsClosed, done >>

\* Ages are kept for the events in the buffer only.
AgeAfter(b, a) == [e \in Events |-> IF e \in Range(b) THEN a[e] ELSE 0]

\* line 255: buf = buf[:0]
TruncateKeep(b) == b

Truncate(b) == SubSeq(b, 1, 0)

\* clearDebounce without the block of lines 221-224 for debounceCap.
clearDebounceKeepCap ==
    /\ mux = "free"
    /\ jobCreated' = FALSE
    /\ debounce' = NilTimer
    /\ debounceCap' = debounceCap

\* lines 211-226, clearDebounce: under mux, jobCreated = false and both timers
\* stopped and set to nil.  Stop does not recall a callback that already runs.
clearDebounce ==
    /\ mux = "free"
    /\ jobCreated' = FALSE
    /\ debounce' = NilTimer
    /\ debounceCap' = NilTimer

\* line 247: query.New(query.SortBy(event.SortTime, event.SortAsc))
JobQueryDesc == [sort |-> "time", dir |-> "desc"]

JobQuery == [sort |-> "time", dir |-> "asc"]

\* The in-memory event store answering a query: the events of the store in
\* the order the query asks for.
Before(a, b, dir) ==
    IF dir = "asc" THEN occurred[a] <= occurred[b]
    ELSE occurred[a] >= occurred[b]

RECURSIVE SortTime(_, _)
SortTime(s, dir) ==
    IF s = << >> THEN << >>
    ELSE LET i == CHOOSE i \in 1..Len(s) :
                      \A j \in 1..Len(s) : Before(s[i], s[j], dir)
             rest == SubSeq(s, 1, i - 1) \o SubSeq(s, i + 1, Len(s))
         IN  << s[i] >> \o SortTime(rest, dir)

RunQuery(q, store) == IF q.sort = "time" THEN SortTime(store, q.dir) ELSE store

\* lines 243-248: the events a Job built from the copy `store` yields:
\* eventstore.New(events...) queried with the Job's query.
JobEvents(store) == RunQuery(JobQuery, store)

\* lines 233-248 of createJob run by `who`: take mux; return at once when
\* jobCreated is set, otherwise copy buf and build the Job, keeping mux.
createJobBegin(who) ==
    /\ mux = "free"
    /\ IF jobCreated
       THEN UNCHANGED << mux, events >>
       ELSE mux' = who /\ events' = buf

\* lines 250-256 of createJob run by `who`, which holds mux: the select on
\* ctx.Done() and the send on jobs, then the reset of buf and of the flag and
\* the deferred Unlock.  A send on the closed jobs channel panics.
createJobSelect(who) ==
    /\ mux = who
    /\ \/ /\ cancelled
          /\ UNCHANGED << delivered, apply >>
          /\ panicked' = FALSE
       \/ /\ ~jobsClosed /\ apply = "recv"
          /\ delivered' = Append(delivered, events)
          /\ apply' = "apply"
          /\ panicked' = FALSE
       \/ /\ jobsClosed
          /\ UNCHANGED << delivered, apply >>
          /\ panicked' = TRUE
    /\ IF panicked'
       THEN UNCHANGED << buf, jobCreated, mux, events, age >>
       ELSE /\ buf' = Truncate(buf)
            /\ jobCreated' = TRUE
            /\ mux' = "free"
            /\ events' = << >>
            /\ age' = AgeAfter(buf', age)

(***************************************************************************)
(* The handleEvents goroutine: streams.ForEach(ctx, addEvent, fail, ...)  *)
(***************************************************************************)

\* ForEach takes the next event from the feed and calls addEvent with it.
EvtRecv ==
    /\ Alive /\ evt = "idle" /\ feedOpen /\ nrecv < MaxEvents
    /\ nrecv' = nrecv + 1
    /\ evt' = "clear"
    /\ burst' = IF burst = "yes" /\ (nrecv = 0 \/ sinceLast < schedule.debounce)
                THEN "yes" ELSE "no"
    /\ sinceLast' = 0
    /\ UNCHANGED << lifeVars, errVars, evtBuf, engineVars, nLock, nClear,
                    apply, delivered, panicked, age, late >>

\* line 260: clearDebounce()
EvtClear ==
    /\ Alive /\ evt = "clear"
    /\ clearDebounce
    /\ evt' = "load"
    /\ UNCHANGED << lifeVars, nrecv, errVars, evtBuf, buf, mux, events, nLock, nClear,
                    apply, delivered, panicked, timeVars >>

\* line 262, buf = append(buf, evt), is not under mux: it loads the slice
\* header of buf ...
EvtAppendLoad ==
    /\ Alive /\ evt = "load"
    /\ evtBuf' = buf
    /\ evt' = "store"
    /\ UNCHANGED << lifeVars, nrecv, errVars, engineVars, nLock, nClear, apply,
                    delivered, panicked, timeVars >>

\* ... and stores the header of the extended slice, whatever a concurrent
\* createJob did to buf in between.  Line 264 then picks the branch.
EvtAppendStore ==
    /\ Alive /\ evt = "store"
    /\ buf' = Append(evtBuf, nrecv)
    /\ evtBuf' = << >>
    /\ age' = [AgeAfter(buf', age) EXCEPT ![nrecv] = 0]
    /\ evt' = IF schedule.debounce <= 0 THEN "create" ELSE "arm"
    /\ UNCHANGED << lifeVars, nrecv, errVars, jobCreated, debounce, debounceCap, mux,
                    events, nLock, nClear, apply, delivered, panicked,
                    sinceLast, burst, late >>

\* addEvent arming the cap timer only when none is set.
EvtArmCapOnce ==
    /\ Alive /\ evt = "arm" /\ mux = "free"
    /\ debounce' = AfterFunc(schedule.debounce)
    /\ capResult' = computeDebounceCap(schedule)
    /\ debounceCap' = IF capResult' > 0 /\ nrecv = 1 THEN AfterFunc(capResult')
                      ELSE debounceCap
    /\ evt' = "idle"
    /\ UNCHANGED << schedule, occurred, subVars, cancelled, feedOpen, wg,
                    trig, jobsClosed, done, nrecv, errVars, evtBuf, buf,
                    jobCreated, mux, events, nLock, nClear, apply, delivered,
                    panicked, timeVars >>

\* lines 269-276: under mux, arm the debounce timer and, when the computed
\* cap is positive, the cap timer.
EvtArm ==
    /\ Alive /\ evt = "arm" /\ mux = "free"
    /\ debounce' = AfterFunc(schedule.debounce)
    /\ capResult' = computeDebounceCap(schedule)
    /\ debounceCap' = IF capResult' > 0 THEN AfterFunc(capResult')
                      ELSE debounceCap
    /\ evt' = "idle"
    /\ UNCHANGED << schedule, occurred, subVars, cancelled, feedOpen, wg,
                    trig, jobsClosed, done, nrecv, errVars, evtBuf, buf, jobCreated, mux,
                    events, nLock, nClear, apply, delivered, panicked,
                    timeVars >>

\* line 265 with debounce <= 0: createJob() called by addEvent itself.
EvtCreateJob ==
    /\ Alive /\ evt = "create"
    /\ createJobBegin("event")
    /\ evt' = IF jobCreated THEN "cleared" ELSE "select"
    /\ UNCHANGED << lifeVars, nrecv, errVars, evtBuf, buf, jobCreated, debounce,
                    debounceCap, nLock, nClear, apply, delivered, panicked,
                    timeVars >>

EvtSelect ==
    /\ Alive /\ evt = "select"
    /\ createJobSelect("event")
    /\ evt' = IF panicked' THEN evt ELSE "cleared"
    /\ UNCHANGED << lifeVars, nrecv, errVars, evtBuf, debounce, debounceCap, nLock,
                    nClear, sinceLast, burst, late >>

\* line 231: the clearDebounce deferred by createJob; addEvent returns.
EvtCreateJobClear ==
    /\ Alive /\ evt = "cleared"
    /\ clearDebounce
    /\ evt' = "idle"
    /\ UNCHANGED << lifeVars, nrecv, errVars, evtBuf, buf, mux, events, nLock, nClear,
                    apply, delivered, panicked, timeVars >>

\* ForEach takes the next error from the errs feed and calls fail with it.
ErrRecv ==
    /\ Alive /\ evt = "idle" /\ feedOpen /\ nerr < MaxErrs
    /\ nerr' = nerr + 1
    /\ evt' = "fail"
    /\ UNCHANGED << lifeVars, nrecv, errOut, errDropped, evtBuf, engineVars,
                    nLock, nClear, apply, delivered, panicked, timeVars >>

\* fail whose select has lost its <-ctx.Done() case: nothing to take here.
FailNoDoneCase == FALSE /\ UNCHANGED vars

\* lines 200-203, select { case <-ctx.Done(): case out <- err: }: a reader of
\* `out` takes the error; fail returns and ForEach goes on with its loop.
FailSend ==
    /\ Alive /\ evt = "fail"
    /\ errOut' = errOut + 1
    /\ evt' = "idle"
    /\ UNCHANGED << lifeVars, nrecv, nerr, errDropped, evtBuf, engineVars,
                    nLock, nClear, apply, delivered, panicked, timeVars >>

\* lines 200-203: ctx is cancelled, the select takes <-ctx.Done() and the
\* error is dropped; fail returns and ForEach goes on with its loop.
FailDrop ==
    /\ Alive /\ evt = "fail" /\ cancelled
    /\ errDropped' = errDropped + 1
    /\ evt' = "idle"
    /\ UNCHANGED << lifeVars, nrecv, nerr, errOut, evtBuf, engineVars,
                    nLock, nClear, apply, delivered, panicked, timeVars >>

\* ForEach returns once the feed is closed (line 279 is over).
ForEachReturn ==
    /\ Alive /\ evt = "idle" /\ ~feedOpen
    /\ evt' = "return"
    /\ UNCHANGED << lifeVars, nrecv, errVars, evtBuf, engineVars, nLock,
                    nClear, apply, delivered, panicked, timeVars >>

\* line 228, the deferred clearDebounce of handleEvents, under mux.
EvtReturn ==
    /\ Alive /\ evt = "return"
    /\ clearDebounce
    /\ evt' = "wgdone"
    /\ UNCHANGED << lifeVars, nrecv, errVars, evtBuf, buf, mux, events, nLock,
                    nClear, apply, delivered, panicked, timeVars >>

\* line 197, the deferred wg.Done(), run after mux was released.
EvtDone ==
    /\ Alive /\ evt = "wgdone"
    /\ evt' = "done"
    /\ wg' = wg - 1
    /\ UNCHANGED << cfgVars, subVars, cancelled, feedOpen, trig, jobsClosed,
                    done, nrecv, errVars, evtBuf, engineVars, nLock, nClear,
                    apply, delivered, panicked, timeVars >>

(***************************************************************************)
(* Timer callbacks: createJob run by the goroutine of an elapsed timer    *)
(***************************************************************************)

\* The debounce timer elapses.
FireDebounce ==
    /\ Alive /\ Armed(debounce)
    /\ debounce' = Fired(debounce)
    /\ nLock' = nLock + 1
    /\ UNCHANGED << lifeVars, nrecv, errVars, evt, evtBuf, buf, jobCreated,
                    debounceCap, mux, events, nClear, apply, delivered,
                    panicked, timeVars >>

\* The cap timer elapses.
FireCap ==
    /\ Alive /\ Armed(debounceCap)
    /\ debounceCap' = Fired(debounceCap)
    /\ nLock' = nLock + 1
    /\ UNCHANGED << lifeVars, nrecv, errVars, evt, evtBuf, buf, jobCreated, debounce,
                    mux, events, nClear, apply, delivered, panicked,
                    timeVars >>

TimerCreateJob ==
    /\ Alive /\ nLock > 0
    /\ createJobBegin("timer")
    /\ nLock' = nLock - 1
    /\ nClear' = IF jobCreated THEN nClear + 1 ELSE nClear
    /\ UNCHANGED << lifeVars, nrecv, errVars, evt, evtBuf, buf, jobCreated, debounce,
                    debounceCap, apply, delivered, panicked, timeVars >>

TimerSelect ==
    /\ Alive
    /\ createJobSelect("timer")
    /\ nClear' = IF panicked' THEN nClear ELSE nClear + 1
    /\ UNCHANGED << lifeVars, nrecv, errVars, evt, evtBuf, debounce, debounceCap,
                    nLock, sinceLast, burst, late >>

TimerClear ==
    /\ Alive /\ nClear > 0
    /\ clearDebounce
    /\ nClear' = nClear - 1
    /\ UNCHANGED << lifeVars, nrecv, errVars, evt, evtBuf, buf, mux, events, nLock,
                    apply, delivered, panicked, timeVars >>

(***************************************************************************)
(* Specifications                                                         *)
(***************************************************************************)

Next ==
    \/ SubscribeBusError \/ SubscribeSetup \/ SubscribeStartupError
    \/ SubscribeStart \/ Cancel \/ BusEndFeeds \/ TriggersReturn
    \/ CloseJobs \/ ApplyReturn \/ ApplyExit \/ RemoveTriggers
    \/ EvtRecv \/ EvtClear \/ EvtAppendLoad \/ EvtAppendStore \/ EvtArm
    \/ EvtCreateJob \/ EvtSelect \/ EvtCreateJobClear
    \/ ForEachReturn \/ EvtReturn \/ EvtDone
    \/ FireDebounce \/ FireCap \/ TimerCreateJob \/ TimerSelect \/ TimerClear

\* Timers may elapse at any moment after they were armed: every scheduling
\* of the goroutines and every spacing of the events is covered.
Spec == Init /\ [][Next]_vars

(***************************************************************************)
(* Runs over every arrival order: the feed delivers its events in any     *)
(* order of their occurrence times.  The schedules are the one without    *)
(* debouncing and Debounce(2ms) with the cap switched off, so no cap      *)
(* timer exists and FireCap has no action here.                           *)
(***************************************************************************)

OrderSchedules ==
    { Continuously(DefaultDebounceCap, << >>),
      Continuously(DefaultDebounceCap, << Debounce(2), DebounceCap(0) >>) }

OrderInit ==
    \E s \in OrderSchedules, t \in Permutations(Events) : InitFrom(s, t)

OrderNext ==
    \/ SubscribeBusError \/ SubscribeSetup \/ SubscribeStartupError
    \/ SubscribeStart \/ Cancel \/ BusEndFeeds \/ TriggersReturn
    \/ CloseJobs \/ ApplyReturn \/ ApplyExit \/ RemoveTriggers
    \/ EvtRecv \/ EvtClear \/ EvtAppendLoad \/ EvtAppendStore \/ EvtArm
    \/ EvtCreateJob \/ EvtSelect \/ EvtCreateJobClear
    \/ ForEachReturn \/ EvtReturn \/ EvtDone
    \/ FireDebounce \/ TimerCreateJob \/ TimerSelect \/ TimerClear

OrderSpec == OrderInit /\ [][OrderNext]_vars

(***************************************************************************)
(* Runs with a bus that also sends errors on its errs feed.  The reader   *)
(* of the error-output channel is the caller of Subscribe: it may take an *)
(* error at any time or never.                                            *)
(***************************************************************************)

ErrInit == \E s \in OrderSchedules : InitWith(s)

ErrNext == OrderNext \/ ErrRecv \/ FailSend \/ FailDrop

\* Nothing obliges the caller to read `out`; a goroutine whose select has a
\* ready case takes it.
ErrSpec == ErrInit /\ [][ErrNext]_vars /\ WF_vars(FailDrop)

(***************************************************************************)
(* Timed runs: a clock of 1ms ticks.  A timer never elapses before its    *)
(* duration has passed (time.AfterFunc: not before d), but its callback   *)
(* may start later, and any goroutine may take any time over a step: the  *)
(* clock may advance in every state.                                      *)
(***************************************************************************)

\* Debounce(2ms) with an explicit cap of 3ms, of 2ms, and without cap.
TimedSchedules ==
    { Continuously(DefaultDebounceCap, << Debounce(2), DebounceCap(3) >>),
      Continuously(DefaultDebounceCap, << Debounce(2), DebounceCap(2) >>),
      Continuously(DefaultDebounceCap, << Debounce(2), DebounceCap(0) >>) }

TimedInit == \E s \in TimedSchedules : InitWith(s)

\* ForEach takes the next event of a timed run from the feed.
TimedRecv == nrecv < MaxTimedEvents /\ EvtRecv

SelectReady == cancelled \/ jobsClosed \/ apply = "recv"

\* Some goroutine of the engine can take a step, or a timer is due.
Runnable ==
    \/ Armed(debounce) /\ debounce.rem = 0
    \/ Armed(debounceCap) /\ debounceCap.rem = 0
    \/ evt \in {"load", "store", "wgdone"}
    \/ evt \in {"clear", "arm", "create", "cleared", "return"} /\ mux = "free"
    \/ evt = "idle" /\ ~feedOpen
    \/ mux # "free" /\ SelectReady
    \/ mux = "free" /\ (nLock > 0 \/ nClear > 0)

DebounceElapsed == debounce.rem = 0 /\ FireDebounce

CapElapsed ==
    /\ Alive /\ Armed(debounceCap) /\ debounceCap.rem = 0
    /\ debounceCap' = Fired(debounceCap)
    /\ nLock' = nLock + 1
    /\ burst' = IF burst = "yes" THEN "capped" ELSE burst
    /\ UNCHANGED << lifeVars, nrecv, errVars, evt, evtBuf, buf, jobCreated, debounce,
                    mux, events, nClear, apply, delivered, panicked, age,
                    sinceLast, late >>

\* One tick on an armed timer; a timer that is due stays due until the
\* runtime starts its callback.
Elapse(t) == IF Armed(t) /\ t.rem > 0 THEN [t EXCEPT !.rem = @ - 1] ELSE t

AgeCap == computeDebounceCap(schedule) + 1

Tick ==
    /\ Alive /\ pcSub = "running"
    /\ debounce' = Elapse(debounce)
    /\ debounceCap' = Elapse(debounceCap)
    /\ age' = [e \in Events |->
                 IF e \in Range(buf) THEN Min(age[e] + 1, AgeCap) ELSE 0]
    /\ sinceLast' = IF nrecv = 0 THEN 0
                    ELSE Min(sinceLast + 1, schedule.debounce)
    /\ late' = (late \/ Runnable)
    /\ << debounce', debounceCap', age', sinceLast', late' >>
         # << debounce, debounceCap, age, sinceLast, late >>
    /\ UNCHANGED << lifeVars, nrecv, errVars, evt, evtBuf, buf, jobCreated, mux,
                    events, nLock, nClear, apply, delivered, panicked, burst >>

\* The schedules of the timed runs all debounce, so the branch of addEvent
\* that calls createJob itself (line 265) has no action here.
TimedNext ==
    \/ SubscribeBusError \/ SubscribeSetup \/ SubscribeStartupError
    \/ SubscribeStart \/ Cancel \/ BusEndFeeds \/ TriggersReturn
    \/ CloseJobs \/ ApplyReturn \/ ApplyExit \/ RemoveTriggers
    \/ TimedRecv \/ EvtClear \/ EvtAppendLoad \/ EvtAppendStore \/ EvtArm
    \/ ForEachReturn \/ EvtReturn \/ EvtDone
    \/ DebounceElapsed \/ CapElapsed \/ TimerCreateJob \/ TimerSelect
    \/ TimerClear \/ Tick

TimedSpec == TimedInit /\ [][TimedNext]_vars

(***************************************************************************)
(* Fair runs: every goroutine that can run eventually does, every armed   *)
(* timer eventually elapses, a goroutine waiting for mux or for the       *)
(* receiver of its Job gets its turn, the bus ends its feeds after        *)
(* cancellation.  Nothing obliges the bus to feed another event, the      *)
(* caller to cancel, or Subscribe to succeed.                             *)
(***************************************************************************)

Fairness ==
    /\ WF_vars(BusEndFeeds) /\ WF_vars(TriggersReturn) /\ WF_vars(CloseJobs)
    /\ WF_vars(ApplyReturn) /\ WF_vars(ApplyExit) /\ WF_vars(RemoveTriggers)
    /\ WF_vars(EvtAppendLoad) /\ WF_vars(EvtAppendStore)
    /\ SF_vars(EvtClear) /\ SF_vars(EvtArm) /\ SF_vars(EvtCreateJob)
    /\ SF_vars(EvtSelect) /\ SF_vars(EvtCreateJobClear)
    /\ WF_vars(ForEachReturn) /\ SF_vars(EvtReturn) /\ WF_vars(EvtDone)
    /\ WF_vars(FireDebounce) /\ WF_vars(FireCap)
    /\ SF_vars(TimerCreateJob) /\ SF_vars(TimerSelect) /\ SF_vars(TimerClear)

FairSpec == Init /\ [][Next]_vars /\ Fairness

(***************************************************************************)
(* The cap heuristic on its own: schedules built by Continuously from     *)
(* every combination of a value of the package variable                   *)
(* DefaultDebounceCap, a Debounce option and a DebounceCap option, and    *)
(* one call of computeDebounceCap on each.                                *)
(***************************************************************************)

DefaultCaps == { DefaultDebounceCap, 0, 7000 }

DebounceOptions ==
    { << >> } \cup { << Debounce(d) >> :
                       d \in { -1000, 0, 1000, 2500, 2501, 3000, 5000 } }

DebounceCapOptions ==
    { << >> } \cup { << DebounceCap(c) >> : c \in { -1, 0, 3000, 5000, 10000 } }

CapSchedules ==
    { Continuously(def, o1 \o o2) :
        def \in DefaultCaps, o1 \in DebounceOptions, o2 \in DebounceCapOptions }

CapInit == \E s \in CapSchedules : InitWith(s)

ComputeDebounceCapCall ==
    /\ capResult = -1
    /\ capResult' = computeDebounceCap(schedule)
    /\ UNCHANGED << schedule, occurred, subVars, cancelled, feedOpen, wg,
                    trig, jobsClosed, done, nrecv, errVars, evt, evtBuf, engineVars, nLock,
                    nClear, apply, delivered, panicked, timeVars >>

CapNext == ComputeDebounceCapCall

CapSpec == CapInit /\ [][CapNext]_vars

(***************************************************************************)
(* Properties                                                             *)
(***************************************************************************)

\* The events of the Jobs delivered so far.
InJob(e) == \E i \in 1..Len(delivered) : e \in Range(delivered[i])

\* C1: no event is lost at Job creation: whenever a createJob resets buf
\* (it releases mux after the select), every event then in buf is in the
\* copy from which this createJob built its Job.
C1_NoEventLostAtReset ==
    [][ (mux # "free" /\ mux' = "free") => Range(buf) \subseteq Range(events) ]_vars

\* C2: idempotent creation: with one event received, so that every running
\* createJob was fired by the two timers of that one batch, at most one Job
\* is ever produced, and once it is delivered the buffer is empty.
C2_OneJobPerBatch ==
    (nrecv = 1 /\ evt = "idle")
        => /\ Len(delivered) <= 1
           /\ (Len(delivered) = 1 => buf = << >>)

\* C3: no event is delivered twice: the Jobs delivered hold pairwise
\* disjoint sets of events.
C3_NoEventTwice ==
    \A i, j \in 1..Len(delivered) :
        i < j => Range(delivered[i]) \cap Range(delivered[j]) = {}

\* C4: eventual batching: with debounce > 0 and no cancellation, every event
\* appended to the buffer is eventually in a delivered Job.
C4_EventualBatching ==
    \A e \in Events :
        (schedule.debounce > 0 /\ e \in Range(buf)) ~> (InJob(e) \/ cancelled)

\* The subscription has shut down completely.
Terminated ==
    /\ evt = "done" /\ trig = "done" /\ jobsClosed /\ apply = "done" /\ done
    /\ cleanup = "done" /\ ~triggers
    /\ mux = "free" /\ nLock = 0 /\ nClear = 0

\* C9: cancellation: once ctx is cancelled during a running subscription,
\* eventually the event task has finished, the Job channel is closed, the
\* apply task has finished, done is closed, the trigger registration is
\* removed and no createJob is left waiting.
C9_CancellationTerminates == cancelled ~> Terminated

\* A Job holding e has been created: delivered, or built by the createJob
\* that holds mux and waits for its receiver.
JobCreatedFor(e) == InJob(e) \/ (mux # "free" /\ e \in Range(events))

\* C5: cap bound: with debounce > 0 and a positive cap, as long as no
\* goroutine and no timer callback was ever late, no event stays in the
\* buffer for more than the cap without a Job holding it being created.
C5_CapBound ==
    (/\ schedule.debounce > 0 /\ computeDebounceCap(schedule) > 0
     /\ ~cancelled /\ ~late)
        => \A e \in Range(buf) :
               JobCreatedFor(e) \/ age[e] <= computeDebounceCap(schedule)

\* C6: debounce coalescing: while every event came less than the debounce
\* duration after the previous one and before any cap expiry, and no
\* goroutine and no timer callback was ever late, no Job is created before
\* the burst is over, and then exactly one Job holding all events of the
\* burst in arrival order.
C6_DebounceCoalescing ==
    (schedule.debounce > 0 /\ burst # "no" /\ ~cancelled /\ ~late)
        => \/ delivered = << >>
           \/ delivered = << [i \in 1..nrecv |-> i] >>

\* The Jobs of the first k events when each event gets its own Job.
OneJobPerEvent(k) == [i \in 1..k |-> << i >>]

\* Number of events whose addEvent has run createJob to its select.
Processed == IF evt \in {"clear", "load", "store", "create", "select"}
             THEN nrecv - 1 ELSE nrecv

\* C7: no debounce: with debounce <= 0 no timer is armed and no timer
\* callback runs, and, absent cancellation, when the k-th addEvent has passed
\* its select the Jobs delivered are <<1>>, ..., <<k>> in this order, the
\* buffer being empty again before the next event is taken from the feed.
C7_NoDebounce ==
    (schedule.debounce <= 0 /\ evt # "none")
        => /\ debounce = NilTimer /\ debounceCap = NilTimer
           /\ nLock = 0 /\ nClear = 0 /\ mux \in {"free", "event"}
           /\ ~cancelled => /\ delivered = OneJobPerEvent(Processed)
                            /\ (evt = "idle" => buf = << >>)

\* Witness of C7: without debouncing, all events were fed and each one was
\* delivered in a Job of its own.
C7_Witness ==
    /\ schedule.debounce <= 0 /\ ~cancelled /\ evt = "idle"
    /\ nrecv = MaxEvents /\ Len(delivered) = MaxEvents

Schedule(d, c, set) ==
    [debounce |-> d, debounceCap |-> c, debounceCapManuallySet |-> set]

\* The four examples of the heuristic.
CapExamples ==
    /\ schedule = Schedule(1000, 5000, FALSE) => capResult = 5000
    /\ schedule = Schedule(3000, 5000, FALSE) => capResult = 6000
    /\ schedule = Schedule(3000, 10000, TRUE) => capResult = 10000
    /\ schedule = Schedule(1000, 0, FALSE) => capResult = 0

\* C8 as claimed: computeDebounceCap returns 0 if debounceCap <= 0; else
\* debounceCap if the cap was overridden; else the default cap of 5s if
\* debounce <= 2.5s; else debounce * 2.
C8_CapHeuristicAsClaimed ==
    capResult # -1 =>
        /\ capResult =
             IF schedule.debounceCap <= 0 THEN 0
             ELSE IF schedule.debounceCapManuallySet THEN schedule.debounceCap
             ELSE IF schedule.debounce <= 2500 THEN 5000
             ELSE schedule.debounce * 2
        /\ CapExamples

\* C8 amended: computeDebounceCap returns 0 if debounceCap <= 0; else
\* debounceCap itself if the cap was overridden or debounce <= 2.5s (without
\* override that is the value DefaultDebounceCap had when the schedule was
\* built, 5s unless the variable was changed); else debounce * 2.
C8_CapHeuristic ==
    capResult # -1 =>
        /\ schedule.debounceCap <= 0 => capResult = 0
        /\ (schedule.debounceCap > 0 /\ schedule.debounceCapManuallySet)
              => capResult = schedule.debounceCap
        /\ (schedule.debounceCap > 0 /\ ~schedule.debounceCapManuallySet
               /\ schedule.debounce <= 2500)
              => capResult = schedule.debounceCap
        /\ (schedule.debounceCap > 0 /\ ~schedule.debounceCapManuallySet
               /\ schedule.debounce > 2500)
              => capResult = schedule.debounce + schedule.debounce
        /\ CapExamples

\* Witness of C8: the heuristic was computed for a schedule without cap
\* override, below the barrier, whose default cap is not 5s.
C8_Witness ==
    /\ schedule = Schedule(1000, 7000, FALSE)
    /\ capResult = 7000

\* C10: startup-Job failure: when Subscribe returns the startup error, no
\* background task has been started or is left running, the goroutine that
\* waits for done included.
C10_StartupFailureStartsNothing ==
    pcSub = "err_startup"
        => /\ evt = "none" /\ trig = "none" /\ apply = "none"
           /\ cleanup # "waiting"

\* C11: subscription-setup failure: when bus.Subscribe fails, Subscribe has
\* returned the error and, in that outcome, no task was started, no trigger
\* registration exists, no feed is open and no Job is or can be created.
C11_BusErrorStartsNothing ==
    pcSub = "err_subscribe"
        => /\ evt = "none" /\ trig = "none" /\ apply = "none"
           /\ cleanup = "none" /\ ~triggers /\ ~feedOpen
           /\ nLock = 0 /\ nClear = 0 /\ mux = "free"
           /\ debounce = NilTimer /\ debounceCap = NilTimer
           /\ buf = << >> /\ delivered = << >>
           /\ ~ENABLED Next

\* Witness of C11: Subscribe has returned the error of bus.Subscribe.
C11_Witness == pcSub = "err_subscribe"

\* s is ascending by occurrence time.
Ascending(s) ==
    \A i, j \in 1..Len(s) : i < j => occurred[s[i]] <= occurred[s[j]]

\* C12: ordering within a batch: what a delivered Job yields holds exactly
\* the events of its snapshot, ascending by occurrence time, whatever the
\* order in which the feed delivered them.
C12_JobYieldsSortedSnapshot ==
    \A i \in 1..Len(delivered) :
        LET y == JobEvents(delivered[i])
        IN  /\ Len(y) = Len(delivered[i])
            /\ Range(y) = Range(delivered[i])
            /\ Ascending(y)

\* Witness of C12: the events occurred at T2, T1, T3 in arrival order, one
\* Job took all three, and it yields them as T1, T2, T3.
C12_Witness ==
    /\ MaxEvents >= 3
    /\ occurred[1] = 2 /\ occurred[2] = 1 /\ occurred[3] = 3
    /\ \E i \in 1..Len(delivered) :
          /\ delivered[i] = << 1, 2, 3 >>
          /\ JobEvents(delivered[i]) = << 2, 1, 3 >>

\* A step of the event task into or out of fail.
FailStep == evt' # evt /\ (evt = "fail" \/ evt' = "fail")

\* C13: feed errors are non-fatal and best-effort: handling an error leaves
\* buf, both timers and jobCreated as they are and returns to the loop of a
\* subscription that goes on as before; every error taken from the feed is
\* delivered on out or, only once ctx is cancelled, dropped; and after
\* cancellation the event task does not stay blocked in fail.
C13_FeedErrorsBestEffort ==
    /\ [][/\ FailStep =>
               /\ UNCHANGED << buf, jobCreated, debounce, debounceCap >>
               /\ UNCHANGED << feedOpen, wg, pcSub, nrecv, jobsClosed, done, late >>
               /\ evt' \in { "idle", "fail" }
               /\ errDropped' # errDropped => cancelled
          /\ nerr' = errOut' + errDropped' + (IF evt' = "fail" THEN 1 ELSE 0)
         ]_vars
    /\ (evt = "fail" /\ cancelled) ~> (evt # "fail" \/ panicked)

\* Witness of C13: one error was dropped after cancellation while an event
\* sat in the buffer under an armed debounce timer, and the event task is
\* back in its loop.
C13_Witness ==
    /\ errDropped >= 1 /\ evt = "idle" /\ cancelled
    /\ buf # << >> /\ Armed(debounce)

\* C14: shutdown ordering: jobs is closed once, and only when the event task
\* and the trigger task have returned; done is closed only when jobs is
\* closed and applyJobs has left its loop; the triggers are removed only
\* after done.  Nothing of this is ever undone.
C14_ShutdownOrdering ==
    [][/\ (~jobsClosed /\ jobsClosed') =>
               evt = "done" /\ trig = "done" /\ wg = 0
       /\ (~done /\ done') => jobsClosed /\ apply' = "done"
       /\ (triggers /\ ~triggers') => done /\ cleanup' = "done"
       /\ jobsClosed => jobsClosed'
       /\ done => done'
       /\ cleanup = "done" => cleanup' = "done"
       /\ jobsClosed' => evt' = "done" /\ trig' = "done"
       /\ done' => jobsClosed' /\ apply' = "done"
       /\ cleanup' = "done" => done' /\ ~triggers'
      ]_vars

\* Witness of C14: a subscription that delivered a Job went through
\* Draining to Terminated.
C14_Witness ==
    /\ cleanup = "done" /\ done /\ jobsClosed /\ ~triggers
    /\ evt = "done" /\ trig = "done" /\ apply = "done"
    /\ delivered # << >>

\* C15: the cap timer is refreshed by every event: the clearDebounce of an
\* addEvent leaves both timers nil, and its lines 269-276 arm the debounce
\* timer with the full debounce and, the cap being positive, the cap timer
\* with the full cap, for the first event as for every later one; so once
\* addEvent is over, an armed timer has run for no longer than the time
\* since the most recent event was taken from the feed.
C15_CapRefreshedByEveryEvent ==
    [][/\ (evt = "clear" /\ evt' = "load") =>
               debounce' = NilTimer /\ debounceCap' = NilTimer
       /\ (evt = "arm" /\ evt' = "idle") =>
               /\ debounce' = AfterFunc(schedule.debounce)
               /\ computeDebounceCap(schedule) > 0 =>
                      debounceCap' = AfterFunc(computeDebounceCap(schedule))
       /\ (evt' = "idle" /\ sinceLast' < schedule.debounce) =>
               /\ Armed(debounce') =>
                      debounce'.rem >= schedule.debounce - sinceLast'
               /\ Armed(debounceCap') =>
                      debounceCap'.rem
                          >= computeDebounceCap(schedule) - sinceLast'
      ]_vars

\* Witness of C15: the second event of a burst has just armed the cap timer
\* with the full cap while the first event, still buffered, is 1ms old.
C15_Witness ==
    /\ nrecv = 2 /\ evt = "idle" /\ buf = << 1, 2 >>
    /\ age[1] >= 1 /\ age[2] = 0
    /\ computeDebounceCap(schedule) > 0
    /\ debounceCap = AfterFunc(computeDebounceCap(schedule))
    /\ debounce = AfterFunc(schedule.debounce)

\* A step that is one execution of clearDebounce: line 260 of addEvent, the
\* deferred call of a createJob run by addEvent or by a timer callback, or
\* the deferred call of handleEvents.
ClearStep ==
    \/ evt = "clear" /\ evt' = "load"
    \/ evt = "cleared" /\ evt' = "idle"
    \/ evt = "return" /\ evt' = "wgdone"
    \/ nClear' = nClear - 1

\* C16: clearDebounce: after every execution jobCreated is false and both
\* timers are nil, and buf is as it was; addEvent reaches its append only
\* through clearDebounce, and every createJob that returns, after its select
\* or early at line 236, goes on to its deferred clearDebounce.
C16_ClearDebounce ==
    [][/\ ClearStep =>
               /\ ~jobCreated'
               /\ debounce' = NilTimer /\ debounceCap' = NilTimer
               /\ buf' = buf
       /\ (evt' = "load" /\ evt # "load") => evt = "clear"
       /\ (evt' = "clear" /\ evt # "clear") => nrecv' = nrecv + 1
       /\ (evt \in { "create", "select" } /\ evt' # evt) =>
               evt' \in { "select", "cleared" }
       /\ (evt = "create" /\ jobCreated /\ evt' # evt) => evt' = "cleared"
       /\ (nLock' = nLock - 1) =>
               IF jobCreated THEN nClear' = nClear + 1 /\ mux' = "free"
               ELSE mux' = "timer" /\ nClear' = nClear
       /\ (mux # "free" /\ mux' = "free") =>
               IF mux = "timer" THEN nClear' = nClear + 1
               ELSE evt' = "cleared"
       /\ nClear' >= nClear - 1
      ]_vars

\* Witness of C16: a createJob has delivered a Job and every pending
\* clearDebounce has run: the flag is false and no timer is left, and the
\* event appended meanwhile is still in buf.
C16_Witness ==
    /\ delivered # << >> /\ ~panicked /\ ~cancelled
    /\ nClear = 0 /\ nLock = 0 /\ mux = "free" /\ evt = "idle"
    /\ ~jobCreated /\ debounce = NilTimer /\ debounceCap = NilTimer
    /\ buf # << >>

\* C17: pending work is covered by a timer: with debounce > 0, while the
\* subscription runs and the event task waits for the feed with events in
\* buf, a timer is armed or a createJob of a timer callback is still to run
\* or holds mux.
C17_PendingWorkCovered ==
    (/\ schedule.debounce > 0 /\ ~cancelled /\ ~panicked
     /\ evt = "idle" /\ buf # << >>)
        => \/ Armed(debounce) \/ Armed(debounceCap)
           \/ nLock > 0 \/ mux = "timer"

\* C18: the flag only suppresses duplicates: whenever jobCreated is true,
\* every event in buf is already in a delivered Job, so a createJob that
\* returns at line 236 leaves no event behind.
C18_FlagOnlySuppressesDuplicates ==
    (jobCreated /\ ~panicked) => \A e \in Range(buf) : InJob(e)

\* C19: no send on the closed jobs channel: no createJob reaches its select
\* of lines 250-253 and sends its Job after close(jobs).
C19_NoSendOnClosedJobs == ~panicked

\* C20: no empty Job: every Job delivered on jobs holds at least one event.
C20_NoEmptyJob == \A i \in 1..Len(delivered) : delivered[i] # << >>

====
